---- MODULE Spec2Model ----
(***************************************************************************)
(* Model of the INI parser in src/main.cpp.                                *)
(*                                                                         *)
(* The parser object (struct ini_parser) is the record `ini`; pointers     *)
(* into the file buffer are modelled as 0-based offsets into buf.data and  *)
(* the null pointer as NULL.  One action models one iteration of the       *)
(* top-level loop of parse_ini: the dispatched case, every sub-routine it  *)
(* calls, and the trailing ini->cursor++.                                  *)
(***************************************************************************)
EXTENDS Integers, Sequences, FiniteSets, TLC

VARIABLES ini, pc, ret, stderr, results

vars == <<ini, pc, ret, stderr, results>>

-----------------------------------------------------------------------------
(* Bytes the parser switches on (ASCII codes).                             *)

CR == 13
LF == 10
SP == 32
TAB == 9
SEMI == 59
LBRACK == 91
RBRACK == 93
EQ == 61
LETTER == 97

\* the null pointer (char *key_end = 0; the zeroed members of ini_parser ini{})
NULL == -1

-----------------------------------------------------------------------------
(* Bounds of the model.                                                    *)

\* longest buffer of the exhaustively enumerated inputs
MaxLen == 4
\* most lines of the line-structured inputs
MaxLines == 3
\* largest magnitude of the garbage int left by key_end - key_begin when
\* key_end is null
MaxUB == 1
\* most calls of parse_ini on one parser object
MaxParses == 2

-----------------------------------------------------------------------------
(* Input buffers.                                                          *)

Alphabet == {LETTER, EQ, SP, LF, CR, SEMI, LBRACK, RBRACK}

RECURSIVE SeqsOfLen(_, _)
SeqsOfLen(S, n) ==
    IF n = 0 THEN {<<>>}
    ELSE {Append(s, x) : s \in SeqsOfLen(S, n - 1), x \in S}

\* every buffer of 1..MaxLen bytes over Alphabet (read_entire_file asserts
\* that the file is not empty)
SmallBufs == UNION {SeqsOfLen(Alphabet, n) : n \in 1..MaxLen}

\* bodies of the lines that may stand anywhere:
\* k=v | [s] | [t=] | ;c
LineMenu ==
    { <<107, EQ, 118>>,
      <<LBRACK, 115, RBRACK>>,
      <<LBRACK, 116, EQ, RBRACK>>,
      <<SEMI, 99>> }

\* bodies that stand only as the last line:
\* " k\t= v " | (blank) | k | k= | "k = " | =v | [u
TailMenu ==
    { <<SP, 107, TAB, EQ, SP, 118, SP>>,
      <<>>,
      <<107>>,
      <<107, EQ>>,
      <<107, SP, EQ, SP>>,
      <<EQ, 118>>,
      <<LBRACK, 117>> }

Terminators == { <<LF>>, <<CR, LF>> }

RECURSIVE LinesOfCount(_)
LinesOfCount(n) ==
    IF n = 0 THEN {<<>>}
    ELSE {p \o l \o t : p \in LinesOfCount(n - 1), l \in LineMenu, t \in Terminators}

\* up to MaxLines lines; the last one may be left unterminated
LineBufs ==
    UNION { {p \o l \o t : p \in LinesOfCount(n - 1),
                           l \in LineMenu \cup TailMenu,
                           t \in Terminators \cup {<<>>}}
          : n \in 1..MaxLines } \ {<<>>}

Inputs == SmallBufs \cup LineBufs

-----------------------------------------------------------------------------
(* Data model.                                                             *)

\* struct buffer / slice: data is an offset into the file buffer
slice(d, n) == [data |-> d, length |-> n]

\* struct ini_kv
ini_kv(s, k, v) == [section |-> s, key |-> k, value |-> v]

\* ini->buf.data[i]
At(b, i) == b[i + 1]

IsBlank(ch) == ch = SP \/ ch = TAB
IsEol(ch) == ch = CR \/ ch = LF

\* the four diagnostics written to stderr
MsgSectionEOF == "Expected ']', encountered EOF instead"
MsgEqualsEOL == "Expected '=', encountered EOL instead"
MsgEqualsEOF == "Expected '=' after key, encountered EOF instead"
MsgValueEOF == "Expected value after '=', encountered EOF isntead"

diag(ln, m) == [line |-> ln, msg |-> m]

\* what a sub-routine hands back: the parser object, the return value, the
\* text written to stderr and whether an assert stopped the program
outcome(i, r, o, a) == [ini |-> i, ret |-> r, out |-> o, aborted |-> a]

-----------------------------------------------------------------------------
(* Sub-routines.                                                           *)

RECURSIVE discard_whitespace(_)
discard_whitespace(i) ==
    IF i.cursor < Len(i.buf) /\ IsBlank(At(i.buf, i.cursor))
    THEN discard_whitespace([i EXCEPT !.cursor = @ + 1])
    ELSE i

\* discard_comment with <= in the loop condition
RECURSIVE discard_comment_offByOne(_)
discard_comment_offByOne(i) ==
    IF i.cursor <= Len(i.buf) /\ (i.cursor = Len(i.buf) \/ ~IsEol(At(i.buf, i.cursor)))
    THEN discard_comment_offByOne([i EXCEPT !.cursor = @ + 1])
    ELSE i

RECURSIVE discard_comment(_)
discard_comment(i) ==
    IF i.cursor < Len(i.buf) /\ ~IsEol(At(i.buf, i.cursor))
    THEN discard_comment([i EXCEPT !.cursor = @ + 1])
    ELSE i

\* if (!section_done) { fprintf(stderr, "[line %d] ...", ini->line); return -1; }
SectionEOF(i) == outcome(i, -1, <<diag(i.line, MsgSectionEOF)>>, FALSE)

\* ScanSection with a line counter that follows the scan
RECURSIVE ScanSection_countsLines(_, _)
ScanSection_countsLines(i, section_begin) ==
    IF i.cursor < Len(i.buf)
    THEN IF At(i.buf, i.cursor) = RBRACK
         THEN outcome([i EXCEPT !.section = slice(section_begin, i.cursor - section_begin)],
                      0, <<>>, FALSE)
         ELSE ScanSection_countsLines(
                  [i EXCEPT !.cursor = @ + 1,
                            !.line = IF At(i.buf, i.cursor) = LF THEN @ + 1 ELSE @],
                  section_begin)
    ELSE SectionEOF(i)

\* the while loop of parse_section_header, entered with section_begin set
RECURSIVE ScanSection(_, _)
ScanSection(i, section_begin) ==
    IF i.cursor < Len(i.buf)
    THEN IF At(i.buf, i.cursor) = RBRACK
         THEN outcome([i EXCEPT !.section = slice(section_begin, i.cursor - section_begin)],
                      0, <<>>, FALSE)
         ELSE ScanSection([i EXCEPT !.cursor = @ + 1], section_begin)
    ELSE SectionEOF(i)

parse_section_header(i) ==
    LET i1 == [i EXCEPT !.cursor = @ + 1]
    IN  ScanSection(i1, i1.cursor)

\* ReadKey without the case for \r and \n: a line end ends the key
RECURSIVE ReadKey_eolEndsKey(_, _, _)
ReadKey_eolEndsKey(b, c, key_end) ==
    IF c < Len(b)
    THEN IF At(b, c) = EQ \/ IsEol(At(b, c))
         THEN [stat |-> "done", cursor |-> c + 1, key_end |-> key_end]
         ELSE IF IsBlank(At(b, c)) THEN ReadKey_eolEndsKey(b, c + 1, key_end)
         ELSE ReadKey_eolEndsKey(b, c + 1, c + 1)
    ELSE [stat |-> "eof", cursor |-> c, key_end |-> key_end]

\* the "Read key" loop of parse_kv
RECURSIVE ReadKey(_, _, _)
ReadKey(b, c, key_end) ==
    IF c < Len(b)
    THEN IF At(b, c) = EQ THEN [stat |-> "done", cursor |-> c + 1, key_end |-> key_end]
         ELSE IF IsBlank(At(b, c)) THEN ReadKey(b, c + 1, key_end)
         ELSE IF IsEol(At(b, c)) THEN [stat |-> "eol", cursor |-> c, key_end |-> key_end]
         ELSE ReadKey(b, c + 1, c + 1)
    ELSE [stat |-> "eof", cursor |-> c, key_end |-> key_end]

\* the "Read value" loop of parse_kv
RECURSIVE ReadValue(_, _, _)
ReadValue(b, c, value_end) ==
    IF c < Len(b)
    THEN IF IsEol(At(b, c)) THEN [cursor |-> c + 1, value_end |-> value_end]
         ELSE IF IsBlank(At(b, c)) THEN ReadValue(b, c + 1, value_end)
         ELSE ReadValue(b, c + 1, c + 1)
    ELSE [cursor |-> c, value_end |-> value_end]

\* EmitRecord with the record put in front
EmitRecord_prepends(i, key, value) ==
    [i EXCEPT !.properties = <<ini_kv(i.section, key, value)>> \o @]

\* ini->properties.push_back(kv)
EmitRecord(i, key, value) ==
    [i EXCEPT !.properties = Append(@, ini_kv(i.section, key, value))]

\* the ints key_end - key_begin can leave when key_end is null (the
\* subtraction of unrelated pointers is undefined)
UBLengths == (0 - MaxUB)..MaxUB

\* the assertions of parse_kv and what follows them.  Only key_end can be
\* null here.  With assertions compiled in the program aborts; with NDEBUG
\* the record is pushed with a garbage key length.
SanityCheckAndEmit(i, key_begin, key_end, value_begin, value_end) ==
    IF key_end = NULL
    THEN {outcome(i, 0, <<>>, TRUE)} \cup
         {outcome(EmitRecord(i, slice(key_begin, g),
                             slice(value_begin, value_end - value_begin)),
                  0, <<>>, FALSE) : g \in UBLengths}
    ELSE {outcome(EmitRecord(i, slice(key_begin, key_end - key_begin),
                             slice(value_begin, value_end - value_begin)),
                  0, <<>>, FALSE)}

\* fprintf(stderr, "[line %d] ...", ini->line); return -1;
Fail(i, m) == outcome(i, -1, <<diag(i.line, m)>>, FALSE)

\* CheckValue with the record pushed before the value is checked
CheckValue_emitsFirst(i, key_begin, key_end, value_begin, value_end) ==
    IF value_end = NULL
    THEN {Fail(EmitRecord(i, slice(key_begin, 0), slice(value_begin, 0)), MsgValueEOF)}
    ELSE SanityCheckAndEmit(i, key_begin, key_end, value_begin, value_end)

\* if (!value_end) { ... return -1; } and the rest of parse_kv
CheckValue(i, key_begin, key_end, value_begin, value_end) ==
    IF value_end = NULL
    THEN {Fail(i, MsgValueEOF)}
    ELSE SanityCheckAndEmit(i, key_begin, key_end, value_begin, value_end)

\* the set of outcomes of parse_kv
parse_kv(i) ==
    LET i1 == discard_whitespace(i)
        key_begin == i1.cursor
        k == ReadKey(i1.buf, i1.cursor, NULL)
        i2 == [i1 EXCEPT !.cursor = k.cursor]
    IN  IF k.stat = "eol" THEN {Fail(i2, MsgEqualsEOL)}
        ELSE IF k.stat = "eof" THEN {Fail(i2, MsgEqualsEOF)}
        ELSE LET i3 == discard_whitespace(i2)
                 value_begin == i3.cursor
                 v == ReadValue(i3.buf, i3.cursor, NULL)
                 i4 == [i3 EXCEPT !.cursor = v.cursor]
             IN  CheckValue(i4, key_begin, k.key_end, value_begin, v.value_end)

-----------------------------------------------------------------------------
(* The program.                                                            *)

\* ini_parser ini{} in main: every member zeroed
Init ==
    /\ ini = [buf |-> <<>>, cursor |-> 0, line |-> 0,
              section |-> slice(NULL, 0), properties |-> <<>>]
    /\ pc = "main"
    /\ ret = 0
    /\ stderr = <<>>
    /\ results = <<>>

init_ini ==
    /\ pc = "main"
    /\ \E b \in Inputs :
          ini' = [ini EXCEPT !.buf = b, !.line = 1]
    /\ pc' = "parse_ini"
    /\ UNCHANGED <<ret, stderr, results>>

\* the byte the top-level switch dispatches on
Dispatching(ch) ==
    /\ pc = "parse_ini"
    /\ ini.cursor < Len(ini.buf)
    /\ At(ini.buf, ini.cursor) \in ch

\* the end of a loop iteration that did not return: ini->cursor++
Advance(i) == [i EXCEPT !.cursor = @ + 1]

\* what main has in hand when parse_ini has returned: err, the diagnostic of
\* this call and ini.properties
result(r, out, props) == [ret |-> r, out |-> out, properties |-> props]

\* a sub-routine returned o: on an error parse_ini returns it at once
Continue(o) ==
    IF o.aborted
    THEN /\ ini' = o.ini
         /\ pc' = "aborted"
         /\ UNCHANGED <<ret, stderr, results>>
    ELSE IF o.ret < 0
    THEN /\ ini' = o.ini
         /\ pc' = "returned"
         /\ ret' = o.ret
         /\ stderr' = stderr \o o.out
         /\ results' = Append(results, result(o.ret, o.out, o.ini.properties))
    ELSE /\ ini' = Advance(o.ini)
         /\ UNCHANGED <<pc, ret, stderr, results>>

\* CaseCR without the look at the next byte
CaseCR_noLookahead ==
    /\ Dispatching({CR})
    /\ ini' = Advance([ini EXCEPT !.line = @ + 1])
    /\ UNCHANGED <<pc, ret, stderr, results>>

CaseCR ==
    /\ Dispatching({CR})
    /\ ini' = Advance(IF ini.cursor < Len(ini.buf) - 1 /\ At(ini.buf, ini.cursor + 1) = LF
                      THEN ini
                      ELSE [ini EXCEPT !.line = @ + 1])
    /\ UNCHANGED <<pc, ret, stderr, results>>

CaseLF ==
    /\ Dispatching({LF})
    /\ ini' = Advance([ini EXCEPT !.line = @ + 1])
    /\ UNCHANGED <<pc, ret, stderr, results>>

CaseBlank ==
    /\ Dispatching({SP, TAB})
    /\ ini' = Advance(ini)
    /\ UNCHANGED <<pc, ret, stderr, results>>

CaseComment ==
    /\ Dispatching({SEMI})
    /\ ini' = Advance(discard_comment(ini))
    /\ UNCHANGED <<pc, ret, stderr, results>>

CaseSection ==
    /\ Dispatching({LBRACK})
    /\ Continue(parse_section_header(ini))

\* the default: label of the top-level switch
DispatchingDefault ==
    /\ pc = "parse_ini"
    /\ ini.cursor < Len(ini.buf)
    /\ At(ini.buf, ini.cursor) \notin {CR, LF, SP, TAB, SEMI, LBRACK}

CaseDefault ==
    /\ DispatchingDefault
    /\ \E o \in parse_kv(ini) : Continue(o)

\* the loop condition fails: return 0
ReturnSuccess ==
    /\ pc = "parse_ini"
    /\ ~(ini.cursor < Len(ini.buf))
    /\ pc' = "returned"
    /\ ret' = 0
    /\ results' = Append(results, result(0, <<>>, ini.properties))
    /\ UNCHANGED <<ini, stderr>>

Next ==
    \/ init_ini
    \/ CaseCR
    \/ CaseLF
    \/ CaseBlank
    \/ CaseComment
    \/ CaseSection
    \/ CaseDefault
    \/ ReturnSuccess

Spec == Init /\ [][Next]_vars

\* the caller initialises the parser object it has already used, for the
\* same buffer, and parses again
init_ini_again ==
    /\ pc = "returned"
    /\ Len(results) < MaxParses
    /\ ini' = [ini EXCEPT !.buf = ini.buf, !.line = 1]
    /\ pc' = "parse_ini"
    /\ UNCHANGED <<ret, stderr, results>>

NextReuse ==
    \/ Next
    \/ init_ini_again

SpecReuse == Init /\ [][NextReuse]_vars

-----------------------------------------------------------------------------
(* The file as text: lines, and what each line says.                       *)

\* where the text of the line that starts at p ends: the first \r or \n at
\* or after p, or the end of the buffer
RECURSIVE LineEnd(_, _)
LineEnd(b, p) ==
    IF p < Len(b) /\ ~IsEol(At(b, p)) THEN LineEnd(b, p + 1) ELSE p

\* the start of the line after the one that starts at p (\r\n is one line end)
NextLine(b, p) ==
    LET e == LineEnd(b, p)
    IN  IF e >= Len(b) THEN e
        ELSE IF At(b, e) = CR /\ e + 1 < Len(b) /\ At(b, e + 1) = LF THEN e + 2
        ELSE e + 1

RECURSIVE LinesFrom(_, _)
LinesFrom(b, p) ==
    IF p >= Len(b) THEN <<>> ELSE <<p>> \o LinesFrom(b, NextLine(b, p))

\* the starts of the lines of b, in file order
Lines(b) == LinesFrom(b, 0)

LineStartSet(b) == {Lines(b)[j] : j \in 1..Len(Lines(b))}

\* the start of the line that holds offset pos
LineOf(b, pos) ==
    CHOOSE p \in LineStartSet(b) :
        /\ p <= pos
        /\ \A q \in LineStartSet(b) : q <= pos => q <= p

\* the first offset in p..e-1 that holds no space or tab, or e
RECURSIVE FirstNonBlank(_, _, _)
FirstNonBlank(b, p, e) ==
    IF p < e /\ IsBlank(At(b, p)) THEN FirstNonBlank(b, p + 1, e) ELSE p

\* one past the last offset in p..e-1 that holds no space or tab, or p
RECURSIVE LastNonBlankEnd(_, _, _)
LastNonBlankEnd(b, p, e) ==
    IF p < e /\ IsBlank(At(b, e - 1)) THEN LastNonBlankEnd(b, p, e - 1) ELSE e

\* the first offset in p..e-1 that holds ch, or e
RECURSIVE FirstByte(_, _, _, _)
FirstByte(b, ch, p, e) ==
    IF p < e /\ At(b, p) # ch THEN FirstByte(b, ch, p + 1, e) ELSE p

\* what the line that starts at p is
LineKind(b, p) ==
    LET e == LineEnd(b, p)
        f == FirstNonBlank(b, p, e)
    IN  IF f = e THEN "blank"
        ELSE IF At(b, f) = SEMI THEN "comment"
        ELSE IF At(b, f) = LBRACK
        THEN LET q == FirstByte(b, RBRACK, f + 1, e)
             IN  IF q < e /\ FirstNonBlank(b, q + 1, e) = e THEN "header" ELSE "bad"
        ELSE LET q == FirstByte(b, EQ, f, e)
             IN  IF f < q /\ q < e /\ FirstNonBlank(b, q + 1, e) < e THEN "kv" ELSE "bad"

\* the key text of the key = value line that starts at p
KeyOf(b, p) ==
    LET e == LineEnd(b, p)
        f == FirstNonBlank(b, p, e)
        q == FirstByte(b, EQ, f, e)
    IN  slice(f, LastNonBlankEnd(b, f, q) - f)

\* the value text that follows the = at offset q
ValueAfter(b, q) ==
    LET e == LineEnd(b, q)
        vb == FirstNonBlank(b, q + 1, e)
    IN  slice(vb, LastNonBlankEnd(b, vb, e) - vb)

\* the value text of the key = value line that starts at p
ValueOf(b, p) ==
    LET e == LineEnd(b, p)
    IN  ValueAfter(b, FirstByte(b, EQ, FirstNonBlank(b, p, e), e))

\* the name of the [name] header line that starts at p
NameOf(b, p) ==
    LET e == LineEnd(b, p)
        f == FirstNonBlank(b, p, e)
    IN  slice(f + 1, FirstByte(b, RBRACK, f + 1, e) - (f + 1))

KVLines(b) == SelectSeq(Lines(b), LAMBDA p : LineKind(b, p) = "kv")

\* blank lines, comments, terminated headers and key = value lines only
WellFormed(b) == \A p \in LineStartSet(b) : LineKind(b, p) # "bad"

\* the line ends (\n, \r\n once, bare \r) before offset pos
LineEndsBefore(b, pos) ==
    Cardinality({i \in 0..(pos - 1) :
        \/ At(b, i) = LF
        \/ At(b, i) = CR /\ ~(i + 1 < Len(b) /\ At(b, i + 1) = LF)})

Stopped == pc \in {"returned", "aborted"}

-----------------------------------------------------------------------------
(* C1: a header line followed by several key = value lines, each ended by  *)
(* a bare \n, parses with success into one record per key = value line, in *)
(* file order, whose key and value are the complete trimmed key and value  *)
(* text of that line (no byte of a following line is skipped).             *)

C1Shape(b) ==
    /\ Len(Lines(b)) >= 3
    /\ LineKind(b, Lines(b)[1]) = "header"
    /\ \A j \in 2..Len(Lines(b)) : LineKind(b, Lines(b)[j]) = "kv"
    /\ \A i \in 0..(Len(b) - 1) : At(b, i) # CR
    /\ At(b, Len(b) - 1) = LF

C1_RecordPerLine ==
    (Stopped /\ C1Shape(ini.buf)) =>
        /\ pc = "returned"
        /\ ret = 0
        /\ Len(ini.properties) = Len(KVLines(ini.buf))
        /\ \A j \in 1..Len(ini.properties) :
              /\ ini.properties[j].key = KeyOf(ini.buf, KVLines(ini.buf)[j])
              /\ ini.properties[j].value = ValueOf(ini.buf, KVLines(ini.buf)[j])

(* C2: on every well-formed buffer parse_ini returns success and the       *)
(* number of records equals the number of key = value lines.               *)

C2_CountMatches ==
    (Stopped /\ WellFormed(ini.buf)) =>
        /\ pc = "returned"
        /\ ret = 0
        /\ Len(ini.properties) = Len(KVLines(ini.buf))

(* C3: every record emitted for a key = value line carries the name of the *)
(* most recent header line that precedes that line, and a zero-length      *)
(* section when no header precedes it.                                     *)

HeadersBefore(b, p) == {h \in LineStartSet(b) : h < p /\ LineKind(b, h) = "header"}

LastOf(S) == CHOOSE h \in S : \A g \in S : g <= h

C3_SectionOfRecord ==
    WellFormed(ini.buf) =>
        \A j \in 1..Len(ini.properties) :
            \A p \in LineStartSet(ini.buf) :
                LET r == ini.properties[j]
                    hs == HeadersBefore(ini.buf, p)
                IN  (LineKind(ini.buf, p) = "kv" /\ r.key = KeyOf(ini.buf, p)) =>
                        IF hs = {} THEN r.section.length = 0
                        ELSE r.section = NameOf(ini.buf, LastOf(hs))

(* C4: when parse_ini fails, the line it reports is 1 plus the number of   *)
(* line ends before the line or header at which the failing dispatch       *)
(* began.                                                                  *)

C4_ReportedLine ==
    [][(pc = "parse_ini" /\ pc' = "returned" /\ ret' = -1) =>
          stderr'[Len(stderr')].line = 1 + LineEndsBefore(ini.buf, ini.cursor)]_vars

(* C5: a = dispatched as the first byte of a key = value line with a value *)
(* is accepted: parse_kv emits a record with a zero-length key and the     *)
(* trimmed value.                                                          *)

EmptyKeyLine ==
    /\ Dispatching({EQ})
    /\ FirstNonBlank(ini.buf, LineOf(ini.buf, ini.cursor), ini.cursor) = ini.cursor
    /\ ValueAfter(ini.buf, ini.cursor).length > 0

C5_EmptyKeyPermitted ==
    [][EmptyKeyLine =>
          /\ pc' = "parse_ini"
          /\ Len(ini'.properties) = Len(ini.properties) + 1
          /\ ini'.properties[Len(ini'.properties)].key.length = 0
          /\ ini'.properties[Len(ini'.properties)].value = ValueAfter(ini.buf, ini.cursor)]_vars

(* C6: as stated, after a failed parse ini->properties holds no record.    *)

C6_NoPartialResults ==
    (pc = "returned" /\ ret = -1) => Len(ini.properties) = 0

(* C6, amended: the failing call appends no record and removes none, so    *)
(* after a failed parse ini->properties still holds exactly the records    *)
(* emitted before the malformed line.                                      *)

C6_FailureKeepsEarlierRecords ==
    [][(pc = "parse_ini" /\ pc' = "returned" /\ ret' = -1) =>
          ini'.properties = ini.properties]_vars

C6_Witness ==
    /\ pc = "returned"
    /\ ret = -1
    /\ Len(ini.properties) >= 1

(* C7: a [ dispatched with no ] between it and the end of the buffer makes *)
(* parse_ini fail with the unterminated-section diagnostic at the line     *)
(* counter's value of the dispatch, with no record appended and the        *)
(* current section unchanged.                                              *)

NoClosingBracket(b, p) == FirstByte(b, RBRACK, p + 1, Len(b)) = Len(b)

C7_UnterminatedSection ==
    [][(Dispatching({LBRACK}) /\ NoClosingBracket(ini.buf, ini.cursor)) =>
          /\ pc' = "returned"
          /\ ret' = -1
          /\ stderr' = Append(stderr, diag(ini.line, MsgSectionEOF))
          /\ ini'.properties = ini.properties
          /\ ini'.section = ini.section]_vars

C7_Witness ==
    /\ pc = "returned"
    /\ ret = -1
    /\ stderr = <<diag(ini.line, MsgSectionEOF)>>
    /\ Len(ini.properties) >= 1
    /\ \E p \in 0..(Len(ini.buf) - 1) :
          /\ At(ini.buf, p) = LBRACK
          /\ NoClosingBracket(ini.buf, p)
          /\ FirstByte(ini.buf, LF, p, Len(ini.buf)) < Len(ini.buf)

(* C8: a key that meets \r, \n or the end of the buffer before any = makes *)
(* parse_ini fail with the missing-equals diagnostic at the current line   *)
(* with no record appended; every record's key is followed by = on the     *)
(* same line.                                                              *)

NoEqualsOnLine(b, p) == FirstByte(b, EQ, p, LineEnd(b, p)) = LineEnd(b, p)

KeyHasEquals(b, r) ==
    LET e == LineEnd(b, r.key.data)
        q == FirstByte(b, EQ, r.key.data, e)
    IN  q < e /\ q < r.value.data

C8_MissingEquals ==
    [][/\ (DispatchingDefault /\ NoEqualsOnLine(ini.buf, ini.cursor)) =>
              /\ pc' = "returned"
              /\ ret' = -1
              /\ stderr' = Append(stderr,
                     diag(ini.line, IF LineEnd(ini.buf, ini.cursor) < Len(ini.buf)
                                    THEN MsgEqualsEOL ELSE MsgEqualsEOF))
              /\ ini'.properties = ini.properties
       /\ \A j \in 1..Len(ini'.properties) :
              KeyHasEquals(ini'.buf, ini'.properties[j])]_vars

C8_Witness ==
    /\ pc = "returned"
    /\ ret = -1
    /\ stderr = <<diag(ini.line, MsgEqualsEOL)>>
    /\ Len(ini.properties) >= 1

(* C9: when only spaces and tabs follow the = up to the line end or the    *)
(* end of the buffer, parse_ini fails with the missing-value diagnostic at *)
(* the current line and appends no record; a value that runs up to the end *)
(* of the buffer without a terminator is accepted and emitted.             *)

C9_MissingValue ==
    [][(DispatchingDefault /\ ~NoEqualsOnLine(ini.buf, ini.cursor)) =>
          LET q == FirstByte(ini.buf, EQ, ini.cursor, Len(ini.buf))
              v == ValueAfter(ini.buf, q)
          IN  IF v.length = 0
              THEN /\ pc' = "returned"
                   /\ ret' = -1
                   /\ stderr' = Append(stderr, diag(ini.line, MsgValueEOF))
                   /\ ini'.properties = ini.properties
              ELSE (LineEnd(ini.buf, q) = Len(ini.buf)) =>
                   /\ pc' = "parse_ini"
                   /\ Len(ini'.properties) = Len(ini.properties) + 1
                   /\ ini'.properties[Len(ini'.properties)].value = v]_vars

(* C10: in every record a non-empty key begins and ends with a byte that   *)
(* is neither space nor tab and holds no =, \r or \n; the value is not     *)
(* empty, begins and ends with a byte that is neither space nor tab and    *)
(* holds no \r or \n.                                                      *)

Trimmed(b, s, banned) ==
    /\ s.data >= 0
    /\ s.data + s.length <= Len(b)
    /\ ~IsBlank(At(b, s.data))
    /\ ~IsBlank(At(b, s.data + s.length - 1))
    /\ \A p \in s.data..(s.data + s.length - 1) : At(b, p) \notin banned

C10_SlicesTrimmed ==
    \A j \in 1..Len(ini.properties) :
        LET r == ini.properties[j]
        IN  /\ r.key.length > 0 => Trimmed(ini.buf, r.key, {EQ, CR, LF})
            /\ r.value.length > 0
            /\ Trimmed(ini.buf, r.value, {CR, LF})

(* C11: every slice the parser stores (the current section, and the        *)
(* section, key and value of every record) lies inside the buffer:         *)
(* 0 <= start, 0 <= length and start + length <= buf.length.  The zeroed   *)
(* slice of a new parser object (null data, length 0) is the empty slice.  *)

InBuffer(b, s) ==
    IF s.data = NULL
    THEN s.length = 0
    ELSE 0 <= s.data /\ 0 <= s.length /\ s.data + s.length <= Len(b)

C11_SlicesInBuffer ==
    /\ InBuffer(ini.buf, ini.section)
    /\ \A j \in 1..Len(ini.properties) :
          /\ InBuffer(ini.buf, ini.properties[j].section)
          /\ InBuffer(ini.buf, ini.properties[j].key)
          /\ InBuffer(ini.buf, ini.properties[j].value)

(* C12: a second parse of the same buffer ends as the first did: the same  *)
(* return value, the same diagnostic and the same records.                 *)

C12_SecondParseSame ==
    Len(results) >= 2 => results[2] = results[1]

(* C13: whatever the parser object held, init_ini leaves it at cursor 0,   *)
(* line 1, with an empty current section and no records.                   *)

C13_InitEstablishesStart ==
    [][(pc \in {"main", "returned"} /\ pc' = "parse_ini") =>
          /\ ini'.cursor = 0
          /\ ini'.line = 1
          /\ ini'.section.length = 0
          /\ ini'.properties = <<>>]_vars

(* C14: as stated, parse_ini returns success with the cursor exactly at    *)
(* the buffer length.                                                      *)

C14_CursorAtLength ==
    (pc = "returned" /\ ret = 0) => ini.cursor = Len(ini.buf)

(* C14, amended: parse_ini returns success with the cursor at the buffer   *)
(* length or one past it.                                                  *)

C14_CursorAtLengthOrOnePast ==
    (pc = "returned" /\ ret = 0) =>
        ini.cursor \in {Len(ini.buf), Len(ini.buf) + 1}

C14_Witness ==
    /\ pc = "returned"
    /\ ret = 0
    /\ ini.cursor = Len(ini.buf) + 1

(* C15: the line end that terminates a comment is dispatched by the        *)
(* top-level loop after discard_comment: the iteration that met the ;      *)
(* leaves the cursor no further than the byte at which that line end is    *)
(* counted (the \n, the \n of \r\n, or the bare \r).                       *)

C15_TerminatorDispatched ==
    [][(Dispatching({SEMI}) /\ LineEnd(ini.buf, ini.cursor) < Len(ini.buf)) =>
          ini'.cursor < NextLine(ini.buf, ini.cursor)]_vars

(* C16: every iteration of the top-level loop either makes parse_ini       *)
(* return (success or error) or moves the cursor forward by at least one;  *)
(* the cursor never decreases.                                             *)

C16_ProgressOrReturn ==
    [][pc = "parse_ini" =>
          \/ pc' = "returned" /\ ini'.cursor >= ini.cursor
          \/ pc' = "parse_ini" /\ ini'.cursor > ini.cursor]_vars

(* C17: the line counter is 1 after init_ini and each iteration of the     *)
(* top-level loop adds exactly one to it when the dispatched byte is \n or *)
(* a \r not followed at once by \n, and nothing otherwise.                 *)

CountsAsLineEnd(b, c) ==
    \/ At(b, c) = LF
    \/ At(b, c) = CR /\ ~(c + 1 < Len(b) /\ At(b, c + 1) = LF)

C17_LineCounter ==
    [][/\ (pc = "main" /\ pc' = "parse_ini") => ini'.line = 1
       /\ pc = "parse_ini" =>
              ini'.line = ini.line +
                  (IF ini.cursor < Len(ini.buf) /\ CountsAsLineEnd(ini.buf, ini.cursor)
                   THEN 1 ELSE 0)]_vars

C17_Witness ==
    /\ pc = "parse_ini"
    /\ ini.cursor = 2
    /\ At(ini.buf, 0) = CR
    /\ At(ini.buf, 1) = LF
    /\ ini.line = 2

(* C18: a successful parse_kv appends exactly one record at the end, no    *)
(* other step changes the record sequence, and the key offsets of          *)
(* successive records increase strictly.                                   *)

C18_AppendOnly ==
    [][/\ IF DispatchingDefault /\ pc' = "parse_ini"
          THEN /\ Len(ini'.properties) = Len(ini.properties) + 1
               /\ SubSeq(ini'.properties, 1, Len(ini.properties)) = ini.properties
          ELSE ini'.properties = ini.properties
       /\ \A j \in 1..(Len(ini'.properties) - 1) :
              ini'.properties[j].key.data < ini'.properties[j + 1].key.data]_vars

KeyText(b, r) == SubSeq(b, r.key.data + 1, r.key.data + r.key.length)

C18_Witness ==
    /\ Len(ini.properties) >= 2
    /\ ini.properties[1].key.length > 0
    /\ KeyText(ini.buf, ini.properties[1]) = KeyText(ini.buf, ini.properties[2])

(* C19: the assertions at the end of parse_kv hold whenever they are       *)
(* reached: no input stops the program at an assert.                       *)

C19_AssertionsHold == pc # "aborted"

-----------------------------------------------------------------------------
(* The bytes of the buffer that one iteration of the top-level loop reads: *)
(* every evaluation of ini->buf.data[...] as a value (taking the address   *)
(* of an element, as for key_begin, reads nothing).                        *)

\* the \r case with cursor < length in place of cursor < length - 1
Lookahead_offByOne(i) ==
    IF i.cursor < Len(i.buf) THEN {i.cursor + 1} ELSE {}

\* the \r case: ini->buf.data[ini->cursor + 1], behind its guard
Lookahead(i) ==
    IF i.cursor < Len(i.buf) - 1 THEN {i.cursor + 1} ELSE {}

\* the loop of discard_whitespace entered with the cursor at c
RECURSIVE WhitespaceReads(_, _)
WhitespaceReads(b, c) ==
    IF c < Len(b)
    THEN {c} \cup (IF IsBlank(At(b, c)) THEN WhitespaceReads(b, c + 1) ELSE {})
    ELSE {}

\* the loop of discard_comment
RECURSIVE CommentReads(_, _)
CommentReads(b, c) ==
    IF c < Len(b)
    THEN {c} \cup (IF IsEol(At(b, c)) THEN {} ELSE CommentReads(b, c + 1))
    ELSE {}

\* the loop of parse_section_header
RECURSIVE SectionReads(_, _)
SectionReads(b, c) ==
    IF c < Len(b)
    THEN {c} \cup (IF At(b, c) = RBRACK THEN {} ELSE SectionReads(b, c + 1))
    ELSE {}

\* the "Read key" loop
RECURSIVE KeyReads(_, _)
KeyReads(b, c) ==
    IF c < Len(b)
    THEN {c} \cup (IF At(b, c) = EQ \/ IsEol(At(b, c)) THEN {} ELSE KeyReads(b, c + 1))
    ELSE {}

\* the "Read value" loop
RECURSIVE ValueReads(_, _)
ValueReads(b, c) ==
    IF c < Len(b)
    THEN {c} \cup (IF IsEol(At(b, c)) THEN {} ELSE ValueReads(b, c + 1))
    ELSE {}

\* parse_kv
KvReads(i) ==
    LET i1 == discard_whitespace(i)
        k == ReadKey(i1.buf, i1.cursor, NULL)
        i2 == [i1 EXCEPT !.cursor = k.cursor]
        i3 == discard_whitespace(i2)
    IN  WhitespaceReads(i.buf, i.cursor) \cup KeyReads(i.buf, i1.cursor) \cup
        (IF k.stat = "done"
         THEN WhitespaceReads(i.buf, i2.cursor) \cup ValueReads(i.buf, i3.cursor)
         ELSE {})

\* one iteration of the loop of parse_ini, entered with cursor < length
Reads(i) ==
    LET ch == At(i.buf, i.cursor)
    IN  {i.cursor} \cup
        (IF ch = CR THEN Lookahead(i)
         ELSE IF ch = LF \/ ch = SP \/ ch = TAB THEN {}
         ELSE IF ch = SEMI THEN CommentReads(i.buf, i.cursor)
         ELSE IF ch = LBRACK THEN SectionReads(i.buf, i.cursor + 1)
         ELSE KvReads(i))

\* what the next iteration will read
Accesses ==
    IF pc = "parse_ini" /\ ini.cursor < Len(ini.buf) THEN Reads(ini) ELSE {}

(* C20: every byte the parser reads lies inside the buffer (0 <= i <       *)
(* buf.length for each read, the \r\n lookahead included) and the cursor   *)
(* never exceeds buf.length + 1.                                           *)

C20_ReadsInBuffer ==
    /\ \A p \in Accesses : 0 <= p /\ p < Len(ini.buf)
    /\ ini.cursor <= Len(ini.buf) + 1

C20_Witness ==
    /\ pc = "returned"
    /\ ret = 0
    /\ ini.cursor = Len(ini.buf)
    /\ Len(ini.buf) >= 2
    /\ At(ini.buf, Len(ini.buf) - 1) = CR
    /\ ini.line >= 2

====
